---- MODULE Spec2Model ----
(***************************************************************************)
(* A model of hutch_python/utils.py (safe_load, IterableNamespace,         *)
(* extract_objs, find_object, find_class) and hutch_python/base_plugin.py  *)
(* (Plugin).                                                               *)
(*                                                                         *)
(* Python strings are sequences of one-character strings, so that          *)
(* str.endswith, slicing, str.split, str.join and string comparison are    *)
(* computed rather than assumed.                                           *)
(***************************************************************************)
EXTENDS Integers, Sequences, FiniteSets, TLC

VARIABLES
    \* ---- the load sequence around safe_load -------------------------
    loaded,        \* the work units run so far, in order
    log,           \* records written to the logger by safe_load
    namespace,     \* names of the units that contributed their objects
    escaped,       \* exception that left a safe_load scope, or None
    \* ---- IterableNamespace ------------------------------------------
    ns_dict,       \* the namespace's __dict__: <<key, value>> in insertion order
    yielded,       \* what iterating the namespace as it is yielded, if done
    \* ---- extract_objs / find_class ----------------------------------
    importable,    \* the importable modules: dotted name -> module
    callables,     \* what calling each object with no arguments does
    search_path,   \* CLASS_SEARCH_PATH
    request,       \* the last call made to extract_objs or find_class
    outcome,       \* what that call did
    \* ---- Plugin ------------------------------------------------------
    outputs,       \* plugin -> what its get_objects returns
    constructed,   \* the plugins constructed so far, in order
    plugin_hooks,  \* plugin -> the future_plugin_hook calls it received
    object_hooks   \* plugin -> the future_object_hook calls it received

load_vars   == <<loaded, log, namespace, escaped>>
ns_vars     == <<ns_dict, yielded>>
resolve_vars == <<importable, callables, search_path, request, outcome>>
plugin_vars == <<outputs, constructed, plugin_hooks, object_hooks>>
vars == <<load_vars, ns_vars, resolve_vars, plugin_vars>>

None == "None"

-----------------------------------------------------------------------------
(* Bounds of the model.                                                    *)
MaxUnits == 3        \* work units in one load sequence
MaxAttrs == 3        \* names bound on one IterableNamespace
MaxSearchPath == 2   \* entries of CLASS_SEARCH_PATH

-----------------------------------------------------------------------------
(* Python strings.                                                         *)

\* s.endswith(suffix)
EndsWith(s, suffix) ==
    /\ Len(s) >= Len(suffix)
    /\ SubSeq(s, Len(s) - Len(suffix) + 1, Len(s)) = suffix

\* s[:-n]
DropLast(s, n) == SubSeq(s, 1, Len(s) - n)

\* c in s
Contains(s, c) == \E i \in 1..Len(s) : s[i] = c

\* s.split('.'): the maximal runs between dots, empty runs included
RECURSIVE SplitFrom(_, _, _)
SplitFrom(s, i, cur) ==
    IF i > Len(s) THEN <<cur>>
    ELSE IF s[i] = "." THEN <<cur>> \o SplitFrom(s, i + 1, <<>>)
    ELSE SplitFrom(s, i + 1, Append(cur, s[i]))

Split(s) == SplitFrom(s, 1, <<>>)

\* '.'.join(parts)
RECURSIVE Join(_)
Join(parts) ==
    IF Len(parts) = 0 THEN <<>>
    ELSE IF Len(parts) = 1 THEN parts[1]
    ELSE parts[1] \o <<".">> \o Join(Tail(parts))

\* ord(c) of the characters in use: code point order
Ord(c) ==
    CASE c = "(" -> 40 [] c = ")" -> 41 [] c = "." -> 46
      [] c = "B" -> 66 [] c = "X" -> 88 [] c = "_" -> 95
      [] c = "a" -> 97 [] c = "b" -> 98 [] c = "c" -> 99
      [] c = "f" -> 102 [] c = "h" -> 104 [] c = "k" -> 107
      [] c = "m" -> 109 [] c = "n" -> 110 [] c = "p" -> 112
      [] c = "q" -> 113 [] c = "r" -> 114 [] c = "s" -> 115
      [] c = "v" -> 118 [] c = "y" -> 121 [] c = "z" -> 122

\* s < t for Python strings: lexicographic by code point, a proper prefix first
RECURSIVE StrLess(_, _)
StrLess(s, t) ==
    IF Len(t) = 0 THEN FALSE
    ELSE IF Len(s) = 0 THEN TRUE
    ELSE IF s[1] # t[1] THEN Ord(s[1]) < Ord(t[1])
    ELSE StrLess(Tail(s), Tail(t))

-----------------------------------------------------------------------------
(* Python exceptions: the class hierarchy that `except` clauses test.      *)

ExcBase ==
    [ BaseException       |-> None,
      KeyboardInterrupt   |-> "BaseException",
      Exception           |-> "BaseException",
      ImportError         |-> "Exception",
      ModuleNotFoundError |-> "ImportError",
      AttributeError      |-> "Exception",
      NameError           |-> "Exception",
      UnboundLocalError   |-> "NameError",
      TypeError           |-> "Exception",
      ValueError          |-> "Exception",
      SyntaxError         |-> "Exception" ]

\* isinstance(exc, cls)
RECURSIVE IsInstance(_, _)
IsInstance(exc, cls) ==
    IF exc = None THEN FALSE
    ELSE IF exc = cls THEN TRUE
    ELSE IsInstance(ExcBase[exc], cls)

-----------------------------------------------------------------------------
(* logging                                                                 *)

\* the standard severities of the logging module
LoggingLevels == [DEBUG |-> 10, INFO |-> 20, WARNING |-> 30, ERROR |-> 40]

SUCCESS_LEVEL == 35

LogRecord(level, msg, arg) == [level |-> level, msg |-> msg, arg |-> arg]

\* a success logged as an ordinary informational record
LoggerSuccessAtInfo(msg, arg) == LogRecord(LoggingLevels.INFO, msg, arg)

\* logger.success = partial(logger.log, SUCCESS_LEVEL)
LoggerSuccess(msg, arg) == LogRecord(SUCCESS_LEVEL, msg, arg)

-----------------------------------------------------------------------------
(* safe_load                                                               *)

\* a handler that catches import failures only
SafeLoadCatchesOnlyImportError(exc) == IsInstance(exc, "ImportError")

\* `except Exception` of safe_load

SafeLoadCatches(exc) == IsInstance(exc, "Exception")

\* identifier = name if cls is None else ' '.join((name, str(cls)))
Identifier(name, cls) == IF cls = None THEN <<name>> ELSE <<name, cls>>

\* One `with safe_load(name, cls):` scope whose body raises `raised` (None: it
\* completes).  records: what is logged; escapes: the exception leaving the
\* scope; completed: the body ran to its end.
SafeLoad(name, cls, raised) ==
    LET identifier == Identifier(name, cls)
        loading == LogRecord(LoggingLevels.INFO, "Loading %s...", identifier)
    IN  IF raised = None
        THEN [ records   |-> << loading,
                                LoggerSuccess("Successfully loaded %s", identifier) >>,
               escapes   |-> None,
               completed |-> TRUE ]
        ELSE IF SafeLoadCatches(raised)
        THEN [ records   |-> << loading,
                                LogRecord(LoggingLevels.ERROR, "Failed to load %s",
                                          identifier) >>,
               escapes   |-> None,
               completed |-> FALSE ]
        ELSE [ records   |-> << loading >>,
               escapes   |-> raised,
               completed |-> FALSE ]

\* What the body of a unit may raise.
BodyRaises == {None, "ValueError", "ImportError", "KeyboardInterrupt"}
UnitClasses == {None, "cls"}

\* The next unit of the load sequence: its work runs inside its own scope and
\* its objects are merged when the work completes.
LoadUnit(cls, raised) ==
    /\ escaped = None
    /\ Len(loaded) < MaxUnits
    /\ LET name == Len(loaded) + 1
           r == SafeLoad(name, cls, raised)
       IN  /\ loaded' = Append(loaded, [name |-> name, cls |-> cls, raised |-> raised])
           /\ log' = log \o r.records
           /\ namespace' = IF r.completed THEN namespace \cup {name} ELSE namespace
           /\ escaped' = r.escapes

LoadNext ==
    /\ \E cls \in UnitClasses, raised \in BodyRaises : LoadUnit(cls, raised)
    /\ UNCHANGED <<ns_vars, resolve_vars, plugin_vars>>

-----------------------------------------------------------------------------
(* IterableNamespace                                                       *)

\* Attribute names and values used to populate a namespace.
AttrNames == { <<"a">>, <<"b">>, <<"c">>, <<"a", "b">>, <<"B">>, <<"_", "a">> }
AttrValues == {"o1", "o2", "o3"}

\* dict keys, in insertion order
Keys(d) == [i \in 1..Len(d) |-> d[i][1]]
HasKey(d, k) == \E i \in 1..Len(d) : d[i][1] = k
\* d[k]
Lookup(d, k) == d[CHOOSE i \in 1..Len(d) : d[i][1] = k][2]

\* d[k] = v: a new key goes last, a bound key keeps its place
DictSet(d, k, v) ==
    IF HasKey(d, k)
    THEN [i \in 1..Len(d) |-> IF d[i][1] = k THEN <<k, v>> ELSE d[i]]
    ELSE Append(d, <<k, v>>)

\* (k1, v1) < (k2, v2) for the items of one dict: its keys are distinct, so
\* the comparison of tuples is decided by the keys
ItemLess(x, y) == StrLess(x[1], y[1])

\* insertion of one item into a sorted list
RECURSIVE InsertSorted(_, _)
InsertSorted(x, sorted) ==
    IF Len(sorted) = 0 THEN <<x>>
    ELSE IF ItemLess(x, sorted[1]) THEN <<x>> \o sorted
    ELSE <<sorted[1]>> \o InsertSorted(x, Tail(sorted))

\* sorted(items)
RECURSIVE Sorted(_)
Sorted(items) ==
    IF Len(items) = 0 THEN <<>>
    ELSE InsertSorted(items[1], Sorted(Tail(items)))

\* the items as the dict holds them, unsorted
IterInsertionOrder(d) == [i \in 1..Len(d) |-> d[i][2]]

\* IterableNamespace.__iter__: for _, obj in sorted(self.__dict__.items()): yield obj
Iter(d) == LET items == Sorted(d) IN [i \in 1..Len(items) |-> items[i][2]]

NotIterated == [done |-> FALSE, values |-> <<>>]

\* namespace.<name> = value
SetAttr(name, value) ==
    /\ HasKey(ns_dict, name) \/ Len(ns_dict) < MaxAttrs
    /\ ns_dict' = DictSet(ns_dict, name, value)
    /\ yielded' = NotIterated

\* list(namespace)
Iterate ==
    /\ ~yielded.done
    /\ yielded' = [done |-> TRUE, values |-> Iter(ns_dict)]
    /\ UNCHANGED ns_dict

NsNext ==
    /\ \/ \E name \in AttrNames, value \in AttrValues : SetAttr(name, value)
       \/ Iterate
    /\ UNCHANGED <<load_vars, resolve_vars, plugin_vars>>

-----------------------------------------------------------------------------
(* Importing and attribute lookup                                          *)

\* A module: what executing its code raises (None: nothing), its __all__
\* (has_all says whether it defines one) and its namespace, attribute name ->
\* object.
Module(effect, has_all, all, attrs) ==
    [effect |-> effect, has_all |-> has_all, all |-> all, attrs |-> attrs]

Returned(value) == [raised |-> None, value |-> value]
Raised(exc) == [raised |-> exc, value |-> None]

\* the dotted names of the packages above `parts` and of the module itself
Ancestors(parts) == [i \in 1..Len(parts) |-> Join(SubSeq(parts, 1, i))]

\* importlib.import_module(name): every package on the way is imported first;
\* a name that is no module is a ModuleNotFoundError, a module whose code
\* raises lets that exception through
RECURSIVE ImportFrom(_, _, _)
ImportFrom(world, names, i) ==
    IF names[i] \notin DOMAIN world THEN Raised("ModuleNotFoundError")
    ELSE IF world[names[i]].effect # None THEN Raised(world[names[i]].effect)
    ELSE IF i = Len(names) THEN Returned(world[names[i]])
    ELSE ImportFrom(world, names, i + 1)

ImportModule(world, name) ==
    IF name = <<>> THEN Raised("ValueError")          \* Empty module name
    ELSE IF name[1] = "." THEN Raised("TypeError")    \* relative, no package
    ELSE ImportFrom(world, Ancestors(Split(name)), 1)

\* getattr(module, attr)
GetAttr(module, attr) ==
    IF attr \in DOMAIN module.attrs THEN Returned(module.attrs[attr])
    ELSE Raised("AttributeError")

\* obj(): callable objects return or raise, the others are not callable
Call(behaviour, obj) ==
    IF obj \in DOMAIN behaviour THEN behaviour[obj] ELSE Raised("TypeError")

\* find_object
FindObject(world, obj_path) ==
    LET parts == Split(obj_path)
        module_path == Join(SubSeq(parts, 1, Len(parts) - 1))
        class_name == parts[Len(parts)]
        module == ImportModule(world, module_path)
    IN  IF module.raised # None THEN module
        ELSE GetAttr(module.value, class_name)

-----------------------------------------------------------------------------
(* extract_objs                                                            *)

Unbound == "unbound"

\* lines 81-87: the suffix is stripped; call_me is assigned in two of the
\* three branches only
StripSuffix(module_name) ==
    IF EndsWith(module_name, <<".", "p", "y">>)
    THEN [module_name |-> DropLast(module_name, 3), call_me |-> Unbound]
    ELSE IF EndsWith(module_name, <<"(", ")">>)
    THEN [module_name |-> DropLast(module_name, 2), call_me |-> "True"]
    ELSE [module_name |-> module_name, call_me |-> "False"]

\* [a for a in dir(module) if a[0] != '_']
PublicNames(module) == {a \in DOMAIN module.attrs : a[1] # "_"}

\* __all__ ignored
AllKwdPublicOnly(module) == PublicNames(module)

\* getattr(module, '__all__', None), else the public names
AllKwd(module) ==
    IF module.has_all THEN {module.all[i] : i \in 1..Len(module.all)}
    ELSE PublicNames(module)

\* `except Exception` of extract_objs
ExtractCatches(exc) == IsInstance(exc, "Exception")

EmptyDict == [n \in {} |-> None]

\* What one call of extract_objs does.  raised: the exception that reaches
\* the caller (None: the call returns); objs: the returned mapping; records:
\* what is logged; calls: the objects that were called.
Result(raised, objs, records, calls) ==
    [raised |-> raised, objs |-> objs, records |-> records, calls |-> calls]

\* lines 100-103
ExtractFailed(exc, module_name, calls) ==
    IF ExtractCatches(exc)
    THEN Result(None, EmptyDict,
                << LogRecord(LoggingLevels.ERROR, "Error loading %s", module_name),
                   LogRecord(LoggingLevels.DEBUG, exc, None) >>,
                calls)
    ELSE Result(exc, None, <<>>, calls)

\* lines 92-99: the specifier is not a module
ExtractObject(world, behaviour, module_name, call_me) ==
    LET my_obj == FindObject(world, module_name)
        parts == Split(module_name)
        name == parts[Len(parts)]
    IN  IF my_obj.raised # None
        THEN ExtractFailed(my_obj.raised, module_name, <<>>)
        ELSE IF call_me = Unbound
        THEN ExtractFailed("UnboundLocalError", module_name, <<>>)
        ELSE IF call_me = "True"
        THEN LET called == Call(behaviour, my_obj.value)
             IN  IF called.raised # None
                 THEN ExtractFailed(called.raised, module_name, <<my_obj.value>>)
                 ELSE Result(None, [n \in {name} |-> called.value], <<>>,
                             <<my_obj.value>>)
        ELSE Result(None, [n \in {name} |-> my_obj.value], <<>>, <<>>)

\* lines 104-110: the specifier is a module; outside the try statement
ExtractModule(module) ==
    LET all_kwd == AllKwd(module)
    IN  IF \E attr \in all_kwd : GetAttr(module, attr).raised # None
        THEN Result("AttributeError", None, <<>>, <<>>)
        ELSE Result(None, [attr \in all_kwd |-> GetAttr(module, attr).value],
                    <<>>, <<>>)

ExtractObjs(world, behaviour, specifier) ==
    LET s == StripSuffix(specifier)
        module == ImportModule(world, s.module_name)
    IN  IF module.raised = None
        THEN ExtractModule(module.value)
        ELSE IF IsInstance(module.raised, "ImportError")
        THEN ExtractObject(world, behaviour, s.module_name, s.call_me)
        ELSE ExtractFailed(module.raised, s.module_name, <<>>)

-----------------------------------------------------------------------------
(* find_class                                                              *)

\* The names eval() finds: the builtins and the globals of utils.py.
Scope == ( <<"s", "t", "r">> :> "builtins.str" ) @@
         ( <<"l", "o", "g", "g", "e", "r">> :> "utils.logger" )

\* eval(class_path) of a bare name
Eval(class_path) ==
    IF class_path = <<>> THEN Raised("SyntaxError")
    ELSE IF class_path \in DOMAIN Scope THEN Returned(Scope[class_path])
    ELSE Raised("NameError")

\* lines 155-158
FindDirect(world, class_path) ==
    IF Contains(class_path, ".") THEN FindObject(world, class_path)
    ELSE Eval(class_path)

\* What one call of find_class does: raised or value as above, tried: the
\* recursive calls it made, <<class_path, check_defaults>> each.
Found(r, tried) == [raised |-> r.raised, value |-> r.value, tried |-> tried]

\* lines 161-167: the defaults from the i-th on, then the bare `raise` of the
\* NameError being handled.  Each default is a call of find_class with
\* check_defaults=False, which is FindDirect: its handler re-raises.
RECURSIVE SearchDefaults(_, _, _, _, _, _)
SearchDefaults(world, defaults, class_path, i, original, tried) ==
    IF i > Len(defaults) THEN Found(Raised(original), tried)
    ELSE LET path == defaults[i] \o <<".">> \o class_path
             r == FindDirect(world, path)
             now == Append(tried, <<path, FALSE>>)
         IN  IF r.raised = None THEN Found(r, now)
             ELSE IF IsInstance(r.raised, "NameError")
             THEN SearchDefaults(world, defaults, class_path, i + 1, original, now)
             ELSE Found(r, now)

FindClass(world, defaults, class_path, check_defaults) ==
    LET r == FindDirect(world, class_path)
    IN  IF /\ r.raised # None
           /\ IsInstance(r.raised, "NameError")
           /\ check_defaults
        THEN SearchDefaults(world, defaults, class_path, 1, r.raised, <<>>)
        ELSE Found(r, <<>>)

-----------------------------------------------------------------------------
(* The resolver's environment and its calls                                *)

\* CLASS_SEARCH_PATH as the source sets it; p.d abbreviates
\* pcdsdevices.device_types
CLASS_SEARCH_PATH == << <<"p", ".", "d">> >>

NoRequest == [op |-> None]
NoOutcome == [raised |-> None]

NoAttrs == [n \in {} |-> None]

\* Module m: a function f, a value v and a private value _h; its __all__ is
\* one of AllChoices (z is a name m does not define).
AllChoices ==
    { [has_all |-> FALSE, all |-> <<>>],
      [has_all |-> TRUE,  all |-> <<>>],
      [has_all |-> TRUE,  all |-> << <<"f">> >>],
      [has_all |-> TRUE,  all |-> << <<"f">>, <<"_", "h">> >>],
      [has_all |-> TRUE,  all |-> << <<"f">>, <<"z">> >>] }

AttrsM == ( <<"f">> :> "m.f" ) @@ ( <<"v">> :> "m.v" ) @@ ( <<"_", "h">> :> "m._h" )

\* m; r, whose code raises; the package k with its module k.n, which defines
\* the class c.  No module is named q.
ExtractWorld(all, effect) ==
    ( <<"m">> :> Module(None, all.has_all, all.all, AttrsM) ) @@
    ( <<"r">> :> Module(effect, FALSE, <<>>, NoAttrs) ) @@
    ( <<"k">> :> Module(None, FALSE, <<>>, ( <<"n">> :> "k.n" )) ) @@
    ( <<"k", ".", "n">> :> Module(None, FALSE, <<>>, ( <<"c">> :> "k.n.c" )) )

ModuleEffects == {"ImportError", "ValueError"}

\* m.f() returns or raises; k.n.c() returns an instance
CallBehaviours ==
    { ( "m.f" :> Returned("m.f()") ) @@ ( "k.n.c" :> Returned("k.n.c()") ),
      ( "m.f" :> Raised("ValueError") ) @@ ( "k.n.c" :> Returned("k.n.c()") ) }

\* dotted paths given to extract_objs, bare or with a suffix
Paths ==
    { <<>>, <<"m">>, <<"m", ".", "f">>, <<"m", ".", "v">>, <<"m", ".", "z">>,
      <<"q">>, <<"q", ".", "x">>, <<"r">>, <<"r", ".", "x">>,
      <<"k", ".", "n">>, <<"k", ".", "n", ".", "c">> }
Suffixes == { <<>>, <<".", "p", "y">>, <<"(", ")">> }
Specifiers == {p \o x : p \in Paths, x \in Suffixes}

\* extract_objs(specifier)
ExtractObjsCall(specifier) ==
    /\ request' = [op |-> "extract_objs", specifier |-> specifier]
    /\ outcome' = ExtractObjs(importable, callables, specifier)
    /\ UNCHANGED <<importable, callables, search_path>>

ExtractNext ==
    /\ \E specifier \in Specifiers : ExtractObjsCall(specifier)
    /\ UNCHANGED <<load_vars, ns_vars, plugin_vars>>

\* The default namespaces p.d and b: each defines the class X or does not, and
\* the code of p.d may raise a NameError.  Nothing defines Z; no module is
\* named q.
NamespaceStates == {"has X", "lacks X", "raises NameError"}

NamespaceModule(state, class) ==
    Module(IF state = "raises NameError" THEN "NameError" ELSE None, FALSE, <<>>,
           IF state = "has X" THEN ( <<"X">> :> class ) ELSE NoAttrs)

ClassWorld(pd, b) ==
    ( <<"p">> :> Module(None, FALSE, <<>>, ( <<"d">> :> "p.d" )) ) @@
    ( <<"p", ".", "d">> :> NamespaceModule(pd, "p.d.X") ) @@
    ( <<"b">> :> NamespaceModule(b, "b.X") )

Namespaces == { <<"p", ".", "d">>, <<"b">>, <<"q">> }

\* the lists CLASS_SEARCH_PATH may hold once the application has edited it
SearchPaths ==
    UNION { [1..n -> Namespaces] : n \in 0..MaxSearchPath }

ClassPaths ==
    { <<"s", "t", "r">>, <<"X">>, <<"Z">>, <<"p", ".", "d", ".", "X">>,
      <<"q", ".", "X">> }

\* find_class(class_path, check_defaults)
FindClassCall(class_path, check_defaults) ==
    /\ request' = [op |-> "find_class", class_path |-> class_path,
                   check_defaults |-> check_defaults]
    /\ outcome' = FindClass(importable, search_path, class_path, check_defaults)
    /\ UNCHANGED <<importable, callables, search_path>>

ClassNext ==
    /\ \E class_path \in ClassPaths, check_defaults \in BOOLEAN :
           FindClassCall(class_path, check_defaults)
    /\ UNCHANGED <<load_vars, ns_vars, plugin_vars>>

-----------------------------------------------------------------------------
(* Plugin                                                                  *)

Plugins == {"A", "B", "C"}

\* The plugins' priority attributes and the order of their configuration
\* entries.
Priority == [A |-> 10, B |-> 1, C |-> 1]
Declared == <<"B", "A", "C">>

\* What get_objects may return: a dict, <<name, object>> in insertion order,
\* of at most two names.
GroupNames == {"x", "y"}
GroupObjects == {"o1", "o2"}
Groups ==
    {<<>>}
    \cup { << <<n, o>> >> : n \in GroupNames, o \in GroupObjects }
    \cup { d \in { << <<n1, o1>>, <<n2, o2>> >> :
                     n1 \in GroupNames, n2 \in GroupNames,
                     o1 \in GroupObjects, o2 \in GroupObjects } :
             d[1][1] # d[2][1] }

HookCall(name, obj) == [name |-> name, obj |-> obj]

\* a plugin that forwards all entries but the last
FuturePluginHookSkipsLast(source, objs) ==
    [i \in 1..(Len(objs) - 1) |-> HookCall(objs[i][1], objs[i][2])]

\* Plugin.future_plugin_hook: the calls of self.future_object_hook it makes,
\* for key, value in objs.items()
FuturePluginHook(source, objs) ==
    [i \in 1..Len(objs) |-> HookCall(objs[i][1], objs[i][2])]

Position(seq, x) == CHOOSE i \in 1..Len(seq) : seq[i] = x
Elements(seq) == {seq[i] : i \in 1..Len(seq)}

\* Higher priority first, ties in the order of declaration.
Before(p, q) ==
    \/ Priority[p] > Priority[q]
    \/ Priority[p] = Priority[q] /\ Position(Declared, p) < Position(Declared, q)

\* The next plugin in priority order is constructed and produces its objects;
\* every plugin constructed before it receives the group.
LoadPlugin(p) ==
    /\ p \notin Elements(constructed)
    /\ \A q \in Plugins \ (Elements(constructed) \cup {p}) : Before(p, q)
    /\ constructed' = Append(constructed, p)
    /\ plugin_hooks' =
           [e \in Plugins |->
               IF e \in Elements(constructed)
               THEN Append(plugin_hooks[e], [source |-> p, objs |-> outputs[p]])
               ELSE plugin_hooks[e]]
    /\ object_hooks' =
           [e \in Plugins |->
               IF e \in Elements(constructed)
               THEN object_hooks[e] \o FuturePluginHook(p, outputs[p])
               ELSE object_hooks[e]]
    /\ UNCHANGED outputs

PluginNext ==
    /\ \E p \in Plugins : LoadPlugin(p)
    /\ UNCHANGED <<load_vars, ns_vars, resolve_vars>>

-----------------------------------------------------------------------------
(* Specifications, one for each part of the program; the variables of the  *)
(* other parts stay as they start.                                         *)

NoHooks == [p \in Plugins |-> <<>>]

\* the load sequence around safe_load
LoadInit ==
    /\ loaded = <<>> /\ log = <<>> /\ namespace = {} /\ escaped = None
    /\ ns_dict = <<>> /\ yielded = NotIterated
    /\ importable = NoAttrs /\ callables = NoAttrs
    /\ search_path = CLASS_SEARCH_PATH
    /\ request = NoRequest /\ outcome = NoOutcome
    /\ outputs = NoHooks /\ constructed = <<>>
    /\ plugin_hooks = NoHooks /\ object_hooks = NoHooks

SpecLoad == LoadInit /\ [][LoadNext]_vars

\* an IterableNamespace, empty when constructed
NsInit ==
    /\ loaded = <<>> /\ log = <<>> /\ namespace = {} /\ escaped = None
    /\ ns_dict = <<>> /\ yielded = NotIterated
    /\ importable = NoAttrs /\ callables = NoAttrs
    /\ search_path = CLASS_SEARCH_PATH
    /\ request = NoRequest /\ outcome = NoOutcome
    /\ outputs = NoHooks /\ constructed = <<>>
    /\ plugin_hooks = NoHooks /\ object_hooks = NoHooks

SpecNamespace == NsInit /\ [][NsNext]_vars

\* extract_objs, in each of the environments above
ExtractInit ==
    /\ loaded = <<>> /\ log = <<>> /\ namespace = {} /\ escaped = None
    /\ ns_dict = <<>> /\ yielded = NotIterated
    /\ importable \in {ExtractWorld(all, effect) :
                           all \in AllChoices, effect \in ModuleEffects}
    /\ callables \in CallBehaviours
    /\ search_path = CLASS_SEARCH_PATH
    /\ request = NoRequest /\ outcome = NoOutcome
    /\ outputs = NoHooks /\ constructed = <<>>
    /\ plugin_hooks = NoHooks /\ object_hooks = NoHooks

SpecExtract == ExtractInit /\ [][ExtractNext]_vars

\* find_class, for each state of the default namespaces and each list
ClassInit ==
    /\ loaded = <<>> /\ log = <<>> /\ namespace = {} /\ escaped = None
    /\ ns_dict = <<>> /\ yielded = NotIterated
    /\ importable \in {ClassWorld(pd, b) :
                           pd \in NamespaceStates,
                           b \in NamespaceStates \ {"raises NameError"}}
    /\ callables = NoAttrs
    /\ search_path \in SearchPaths
    /\ request = NoRequest /\ outcome = NoOutcome
    /\ outputs = NoHooks /\ constructed = <<>>
    /\ plugin_hooks = NoHooks /\ object_hooks = NoHooks

SpecClass == ClassInit /\ [][ClassNext]_vars

\* the plugins of one configuration, for each choice of their outputs
PluginInit ==
    /\ loaded = <<>> /\ log = <<>> /\ namespace = {} /\ escaped = None
    /\ ns_dict = <<>> /\ yielded = NotIterated
    /\ importable = NoAttrs /\ callables = NoAttrs
    /\ search_path = CLASS_SEARCH_PATH
    /\ request = NoRequest /\ outcome = NoOutcome
    /\ outputs \in [Plugins -> Groups] /\ constructed = <<>>
    /\ plugin_hooks = NoHooks /\ object_hooks = NoHooks

SpecPlugin == PluginInit /\ [][PluginNext]_vars

-----------------------------------------------------------------------------
(* Properties of safe_load (SpecLoad)                                      *)

Range(seq) == {seq[i] : i \in 1..Len(seq)}
Count(seq, x) == Cardinality({i \in 1..Len(seq) : seq[i] = x})

\* C1: an Exception raised inside a safe_load scope is logged as an error
\* naming the unit and is swallowed: nothing that is an Exception leaves a
\* scope, the unit after a unit that raised can still run, a unit that raised
\* contributes nothing and the units that completed are exactly the
\* contributors (so the result is empty when every unit raises).
C1_SafeLoadSwallows ==
    /\ ~IsInstance(escaped, "Exception")
    /\ \A i \in 1..Len(loaded) :
           IsInstance(loaded[i].raised, "Exception") =>
               /\ LogRecord(LoggingLevels.ERROR, "Failed to load %s",
                            Identifier(loaded[i].name, loaded[i].cls)) \in Range(log)
               /\ loaded[i].name \notin namespace
               /\ (i = Len(loaded) /\ i < MaxUnits) => ENABLED LoadNext
    /\ namespace = {loaded[i].name : i \in {j \in 1..Len(loaded) : loaded[j].raised = None}}
    /\ Count([i \in 1..Len(log) |-> log[i].msg], "Loading %s...") = Len(loaded)

\* A unit raises, the next completes and contributes, a third raises.
C1_Witness ==
    /\ Len(loaded) >= 3
    /\ loaded[1].raised = "ValueError"
    /\ loaded[2].raised = None
    /\ loaded[3].raised = "ImportError"
    /\ namespace = {2}
    /\ escaped = None

SuccessRecords == {r \in Range(log) : r.msg = "Successfully loaded %s"}

\* C9 as stated: the severity of the 'Successfully loaded' message lies
\* strictly between INFO (20) and WARNING (30).
C9_SuccessBetweenInfoAndWarning ==
    \A r \in SuccessRecords :
        LoggingLevels.INFO < r.level /\ r.level < LoggingLevels.WARNING

\* C9, amended: the 'Successfully loaded' message is logged at SUCCESS_LEVEL,
\* which lies strictly between WARNING (30) and ERROR (40), so above INFO (20).
C9_SuccessBetweenWarningAndError ==
    \A r \in SuccessRecords :
        /\ r.level = SUCCESS_LEVEL
        /\ LoggingLevels.INFO < r.level
        /\ LoggingLevels.WARNING < r.level
        /\ r.level < LoggingLevels.ERROR

\* A unit has completed and its success is in the log.
C9_Witness ==
    /\ SuccessRecords # {}
    /\ \E i \in 1..Len(loaded) : loaded[i].raised = None

-----------------------------------------------------------------------------
(* Properties of IterableNamespace (SpecNamespace)                         *)

KeySet(d) == Range(Keys(d))

\* C8: iterating yields one value per bound name, and the i-th value is the
\* value bound to the name that has exactly i-1 bound names before it in
\* lexicographic order, whatever the order of binding.
C8_IterSortedByName ==
    yielded.done =>
        /\ Len(yielded.values) = Len(ns_dict)
        /\ \A k \in KeySet(ns_dict) :
               LET rank == Cardinality({j \in KeySet(ns_dict) : StrLess(j, k)})
               IN  yielded.values[rank + 1] = Lookup(ns_dict, k)

\* Bound in the order b, a, c and iterated.
C8_Witness ==
    /\ yielded.done
    /\ ns_dict = << << <<"b">>, "o1" >>, << <<"a">>, "o2" >>, << <<"c">>, "o3" >> >>
    /\ yielded.values = <<"o2", "o1", "o3">>

-----------------------------------------------------------------------------
(* Properties of Plugin (SpecPlugin)                                       *)

ConstructedAfter(a) ==
    IF a \in Elements(constructed)
    THEN SubSeq(constructed, Position(constructed, a) + 1, Len(constructed))
    ELSE <<>>

\* C7: each delivery of a group to a plugin makes one future_object_hook call
\* per entry of the group, with its name and object, and no other call; the
\* groups a plugin receives are those of the plugins constructed after it, so
\* it gets one call per object of each later plugin and none for its own.
C7_HookOncePerEntry ==
    \A a \in Plugins :
        /\ plugin_hooks[a] =
               [i \in 1..Len(ConstructedAfter(a)) |->
                   [source |-> ConstructedAfter(a)[i],
                    objs |-> outputs[ConstructedAfter(a)[i]]]]
        /\ \A i \in 1..Len(plugin_hooks[a]) : plugin_hooks[a][i].source # a
        /\ \A c \in Range(object_hooks[a]) :
               c.name \in GroupNames /\ c.obj \in GroupObjects
        /\ \A n \in GroupNames, o \in GroupObjects :
               Count(object_hooks[a], HookCall(n, o)) =
                   Cardinality({i \in 1..Len(plugin_hooks[a]) :
                                   <<n, o>> \in Range(plugin_hooks[a][i].objs)})

\* A, B and C are constructed in that order; A received B's two objects and
\* C's one and nothing for its own object.
C7_Witness ==
    /\ constructed = <<"A", "B", "C">>
    /\ outputs["A"] = << <<"x", "o1">> >>
    /\ outputs["B"] = << <<"y", "o2">>, <<"x", "o2">> >>
    /\ outputs["C"] = << <<"y", "o1">> >>
    /\ object_hooks["A"] = << HookCall("y", "o2"), HookCall("x", "o2"),
                              HookCall("y", "o1") >>
    /\ object_hooks["B"] = << HookCall("y", "o1") >>
    /\ object_hooks["C"] = <<>>

-----------------------------------------------------------------------------
(* Properties of extract_objs (SpecExtract)                                *)

IsExtract == request.op = "extract_objs"

\* the path the specifier names, its suffix stripped
Stripped == StripSuffix(request.specifier).module_name
HasCallMarker == EndsWith(request.specifier, <<"(", ")">>)
HasPySuffix == EndsWith(request.specifier, <<".", "p", "y">>)

ImportsAsModule(path) == ImportModule(importable, path).raised = None

\* path is no module, but a module path followed by one of its attributes
NamesObject(path) ==
    /\ IsInstance(ImportModule(importable, path).raised, "ImportError")
    /\ FindObject(importable, path).raised = None

LastComponent(path) == Split(path)[Len(Split(path))]

ErrorLogged(records) ==
    \E i \in 1..Len(records) : records[i].level = LoggingLevels.ERROR

\* C2: extract_objs never raises; whenever it does not produce objects the
\* failure was caught, an error is logged and the mapping is empty.
C2_ExtractNeverRaises ==
    IsExtract =>
        /\ outcome.raised = None
        /\ (~ImportsAsModule(Stripped) /\ ~NamesObject(Stripped)) =>
               ErrorLogged(outcome.records) /\ outcome.objs = EmptyDict

\* the names a module exports: its __all__, else its public attributes
Exported(module) ==
    IF module.has_all THEN Range(module.all)
    ELSE {a \in DOMAIN module.attrs : Head(a) # "_"}

\* the mapping holds exactly the exported names of the module, each with the
\* module's attribute, and nothing was called
ReturnsExported(module) ==
    /\ outcome.raised = None
    /\ DOMAIN outcome.objs = Exported(module)
    /\ \A n \in Exported(module) : outcome.objs[n] = module.attrs[n]
    /\ outcome.calls = <<>>

CallReturns(path) ==
    HasCallMarker =>
        Call(callables, FindObject(importable, path).value).raised = None

\* C6: a specifier that is no module but names an attribute of an importable
\* module yields one entry keyed by the last component: with the '()' marker
\* the result of calling the attribute (a call that returns), called once;
\* without it the attribute itself, not called.
C6_ObjectPath ==
    (IsExtract /\ NamesObject(Stripped) /\ CallReturns(Stripped)) =>
        LET obj == FindObject(importable, Stripped).value
        IN  /\ outcome.raised = None
            /\ DOMAIN outcome.objs = {LastComponent(Stripped)}
            /\ IF HasCallMarker
               THEN /\ outcome.calls = <<obj>>
                    /\ outcome.objs[LastComponent(Stripped)] = Call(callables, obj).value
               ELSE /\ outcome.calls = <<>>
                    /\ outcome.objs[LastComponent(Stripped)] = obj

SameMapping(r1, r2) ==
    /\ r1.raised = r2.raised
    /\ r1.raised = None =>
           /\ DOMAIN r1.objs = DOMAIN r2.objs
           /\ \A n \in DOMAIN r1.objs : r1.objs[n] = r2.objs[n]

\* C10: for a path p that imports as a module or names a single object,
\* extract_objs(p + '.py') returns what extract_objs(p) returns.
C10_PySuffixOnlyStripped ==
    (/\ IsExtract
     /\ HasPySuffix
     /\ Stripped \in Paths
     /\ ImportsAsModule(Stripped) \/ NamesObject(Stripped)) =>
        SameMapping(outcome, ExtractObjs(importable, callables, Stripped))

-----------------------------------------------------------------------------
(* Properties of find_class (SpecClass)                                    *)

IsFindClass == request.op = "find_class"

\* a bare name that eval() does not find
BareUndefined(class_path) ==
    /\ class_path # <<>>
    /\ ~Contains(class_path, ".")
    /\ class_path \notin DOMAIN Scope

Qualified(default, class_path) == default \o <<".">> \o class_path

\* the module named by the entry imports and defines the name
Provides(default, class_path) ==
    FindObject(importable, Qualified(default, class_path)).raised = None

\* C3: for a bare name undefined in scope that no entry of CLASS_SEARCH_PATH
\* provides, the caller gets the NameError of the bare name.
C3_UndefinedNameError ==
    (/\ IsFindClass
     /\ BareUndefined(request.class_path)
     /\ \A i \in 1..Len(search_path) :
            ~Provides(search_path[i], request.class_path)) =>
        outcome.raised = "NameError"

\* C4: for a bare name undefined in scope and check_defaults=True, the entries
\* are tried in list order, each with check_defaults=False, and the object of
\* the first entry that provides the name is returned.
C4_FirstProvidingDefault ==
    (/\ IsFindClass
     /\ BareUndefined(request.class_path)
     /\ request.check_defaults
     /\ \E i \in 1..Len(search_path) :
            Provides(search_path[i], request.class_path)) =>
        LET first == CHOOSE i \in 1..Len(search_path) :
                         /\ Provides(search_path[i], request.class_path)
                         /\ \A j \in 1..(i - 1) :
                                ~Provides(search_path[j], request.class_path)
        IN  /\ outcome.raised = None
            /\ outcome.value =
                   FindObject(importable,
                              Qualified(search_path[first], request.class_path)).value
            /\ outcome.tried =
                   [j \in 1..first |->
                       <<Qualified(search_path[j], request.class_path), FALSE>>]

====
